---- MODULE Spec2Model ----
(***************************************************************************)
(* pydjamodb: a Django adapter over pynamodb's table connection.           *)
(*                                                                         *)
(*   pydjamodb/connection.py   TableConnection, TestTableConnection,       *)
(*                             connection_lock                             *)
(*   pydjamodb/test_runner.py  _init_worker, DynamoDBTestSuiteMixin        *)
(*                                                                         *)
(* Python values are written as strings ("None", "True", "{}", ...);      *)
(* Python strings that the code builds with str.format are sequences of    *)
(* tokens, so that formatting is concatenation and not the identity.       *)
(***************************************************************************)
EXTENDS Integers, Sequences, FiniteSets, TLC

VARIABLES
    \* ---- TableConnection (connection.py:18-181)
    settings,                 \* settings.PYDJAMODB_DATABASE
    max_retry,                \* connection._max_retry_attempts_exception
    table_name,               \* the (wrapped) connection's table_name
    last,                     \* the last operation: arguments, SDK calls, result
    \* ---- TestTableConnection (connection.py:184-230)
    wrapped_table_name,       \* _wrapped_table_name
    is_test_clean_required,   \* _is_test_clean_required
    items,                    \* the items stored in the model's table
    written,                  \* history: a write was called since the last clean returned
    last_prefix,              \* history: the prefix of the last set_table_name
    \* ---- patched http_session.send and connection_lock (connection.py:15, 196-205)
    start_method,             \* multiprocessing.get_start_method()
    lock_owner,               \* per RLock object: the process that owns it (0: free)
    lock_count,               \* per RLock object: its recursion count
    patch_depth,              \* per process: how many patched_method wrap the original send
    send_pc,                  \* per process: where it is in the patched send
    send_level,               \* per process: how many "with connection_lock" it is inside
    send_result,              \* per process: how the last send ended
    \* ---- parallel test workers (test_runner.py:39-139)
    parallel,                 \* self.parallel
    phase,                    \* the runner: "start", "workers", "done"
    counter,                  \* the shared multiprocessing.Value
    counter_lock,             \* counter.get_lock(): its holder (0: free)
    worker_pc,                \* per worker: where it is in _init_worker
    worker_tmp,               \* per worker: the value read by "counter.value += 1"
    worker_id,                \* per worker: the module global _worker_id
    worker_tables,            \* per worker: the table names its connections use
    created_tables,           \* the tables setup_databases created
    removed_tables            \* the tables teardown_databases removed

connVars   == <<settings, max_retry, table_name, last>>
testVars   == <<wrapped_table_name, is_test_clean_required, items, written, last_prefix>>
lockVars   == <<start_method, lock_owner, lock_count, patch_depth, send_pc, send_level,
                send_result>>
workerVars == <<parallel, phase, counter, counter_lock, worker_pc, worker_tmp, worker_id,
                worker_tables, created_tables, removed_tables>>
vars       == <<connVars, testVars, lockVars, workerVars>>

(***************************************************************************)
(* Bounds of the model.                                                    *)
(***************************************************************************)
MaxRetry    == 2      \* largest connection._max_retry_attempts_exception tried
MaxItems    == 2      \* item keys are 1..MaxItems
NumProcs    == 2      \* processes that send through the patched session
MaxPatch    == 2      \* how many times one http session is patched
MaxParallel == 3      \* largest self.parallel tried

(***************************************************************************)
(* Python values.                                                          *)
(***************************************************************************)
None == "None"

\* bool(v) of a value written as a string
Truthy(v) == v \notin {"None", "False", "{}", "[]", "", "0"}

\* a or b
PyOr(a, b) == IF Truthy(a) THEN a ELSE b

Ret(v)   == [kind |-> "return", val |-> v]
Raise(e) == [kind |-> "raise", val |-> e]

\* One call of the underlying SDK: its name, what was passed, how it ended.
SdkCall(name, kw, out) == [name |-> name, kw |-> kw, out |-> out, ret |-> None]

\* A call of the SDK that returned ret.
SdkReturn(name, kw, ret) == [name |-> name, kw |-> kw, out |-> "ok", ret |-> ret]

\* What an SDK call can do: succeed, or raise one of these.
SdkErrors   == {"ClientError", "TableDoesNotExist"}
SdkOutcomes == {"ok"} \cup SdkErrors

Op(op, args, calls, result, logged) ==
    [op |-> op, args |-> args, calls |-> calls, result |-> result, logged |-> logged]

(***************************************************************************)
(* settings.PYDJAMODB_DATABASE.  A key that is not in the dictionary reads *)
(* as None through .get(); TAGS is a dictionary of str.format templates.   *)
(***************************************************************************)
TABLE_PREFIX == "pfx"

CtorKeys == {"AWS_REGION", "HOST", "AWS_ACCESS_KEY_ID", "AWS_SECRET_ACCESS_KEY",
             "AWS_SESSION_TOKEN"}

\* the value a settings key has when it is set
Configured(key) == "cfg:" \o key

\* TAGS templates: one tag value, a sequence of literal text and {table_name}
TagTemplates == { <<"team-a">>, <<"table=", "{table_name}">> }

DefaultSettings ==
    [ AWS_REGION |-> Configured("AWS_REGION"), HOST |-> Configured("HOST"),
      AWS_ACCESS_KEY_ID |-> Configured("AWS_ACCESS_KEY_ID"),
      AWS_SECRET_ACCESS_KEY |-> Configured("AWS_SECRET_ACCESS_KEY"),
      AWS_SESSION_TOKEN |-> Configured("AWS_SESSION_TOKEN"),
      BILLING_MODE |-> Configured("BILLING_MODE"),
      POINT_IN_TIME_RECOVERY |-> None,
      STREAM_SPECIFICATION |-> Configured("STREAM_SPECIFICATION"),
      TAGS |-> [present |-> FALSE, tmpl |-> <<>>],
      RETURN_CONSUMED_CAPACITY |-> None ]

\* the constructor's keys: all set, all but one, only one, none; the rest as in
\* DefaultSettings
CtorSettings ==
    { [ k \in DOMAIN DefaultSettings |->
          IF k \in CtorKeys THEN (IF k \in S THEN Configured(k) ELSE None)
          ELSE DefaultSettings[k] ] :
      S \in {CtorKeys, {}} \cup { CtorKeys \ {k} : k \in CtorKeys }
              \cup { {k} : k \in CtorKeys } }

\* create_table's keys each set or not, the rest as in DefaultSettings
CreateSettings ==
    { [ DefaultSettings EXCEPT !.BILLING_MODE = b, !.POINT_IN_TIME_RECOVERY = p,
                               !.STREAM_SPECIFICATION = s, !.TAGS = t ] :
        b \in {None, Configured("BILLING_MODE")},
        p \in {None, "True", "False"},
        s \in {None, Configured("STREAM_SPECIFICATION")},
        t \in {[present |-> FALSE, tmpl |-> <<>>]}
              \cup {[present |-> TRUE, tmpl |-> x] : x \in TagTemplates} }

\* the per-table LOGGING setting RETURN_CONSUMED_CAPACITY set or not
LoggingSettings ==
    { [ DefaultSettings EXCEPT !.RETURN_CONSUMED_CAPACITY = r ] : r \in {None, "TOTAL"} }

\* POINT_IN_TIME_RECOVERY set or not
PitrSettings ==
    { [ DefaultSettings EXCEPT !.POINT_IN_TIME_RECOVERY = p ] : p \in {None, "True", "False"} }

(***************************************************************************)
(* str.format                                                              *)
(***************************************************************************)
\* '{}-{}'.format(prefix, name)
FormatTableName(prefix, name) == <<prefix, "-", name>>

RECURSIVE Concat(_)
\* ''.join of a sequence of token sequences
Concat(ss) == IF ss = <<>> THEN <<>> ELSE Head(ss) \o Concat(Tail(ss))

\* v.format(table_name=name): every {table_name} of the template becomes the name
FormatTag(tmpl, name) ==
    Concat([ i \in 1..Len(tmpl) |->
               IF tmpl[i] = "{table_name}" THEN name ELSE <<tmpl[i]>> ])

(***************************************************************************)
(* TableConnection.__init__                              connection.py:20  *)
(***************************************************************************)
\* settings.PYDJAMODB_DATABASE.get(key) if arg is None else arg
OrSettingAlways(arg, key) == settings[key]
OrSetting(arg, key) == IF arg = None THEN settings[key] ELSE arg

TableNames == {"users"}

Given(param) == {None, "arg:" \o param}

CtorArgs ==
    [ region : Given("region"), host : Given("host"),
      aws_access_key_id : Given("aws_access_key_id"),
      aws_secret_access_key : Given("aws_secret_access_key"),
      aws_session_token : Given("aws_session_token") ]

\* the keyword arguments of super().__init__ (those the class only hands on are left out)
SuperInitKw(name, a) ==
    [ table_name            |-> FormatTableName(TABLE_PREFIX, name),
      region                |-> OrSetting(a.region, "AWS_REGION"),
      host                  |-> OrSetting(a.host, "HOST"),
      aws_access_key_id     |-> OrSetting(a.aws_access_key_id, "AWS_ACCESS_KEY_ID"),
      aws_secret_access_key |-> OrSetting(a.aws_secret_access_key, "AWS_SECRET_ACCESS_KEY"),
      aws_session_token     |-> OrSetting(a.aws_session_token, "AWS_SESSION_TOKEN") ]

Construct ==
    \E name \in TableNames, a \in CtorArgs :
        /\ table_name' = FormatTableName(TABLE_PREFIX, name)
        /\ last' = Op("__init__", a,
                      << SdkCall("super().__init__", SuperInitKw(name, a), "ok") >>,
                      Ret(None), FALSE)
        /\ UNCHANGED <<settings, max_retry, testVars, lockVars, workerVars>>

(***************************************************************************)
(* TableConnection.set_point_in_time_recovery           connection.py:168  *)
(***************************************************************************)
\* the outcome of the i-th SDK call of a script (calls past its end succeed)
Outcome(outs, i) == IF i <= Len(outs) THEN outs[i] ELSE "ok"

ClientErrors(k) == [ i \in 1..k |-> "ClientError" ]

\* The outcomes update_continuous_backups can have, call after call, until the
\* loop of n + 1 attempts is left.
PitrScripts(n) ==
    { ClientErrors(k) \o <<t>> : k \in 0..n, t \in SdkOutcomes \ {"ClientError"} }
    \cup { ClientErrors(n + 1) }

UpdateContinuousBackups(enabled, out) ==
    SdkCall("update_continuous_backups",
            [TableName |-> table_name, PointInTimeRecoveryEnabled |-> enabled], out)

RECURSIVE pitr_loop_swallow(_, _, _, _)
\* the loop with the re-raise left out: the last ClientError is swallowed
pitr_loop_swallow(i, n, enabled, outs) ==
    IF i > n THEN [calls |-> <<>>, result |-> Ret(None)]
    ELSE LET out == Outcome(outs, i + 1)
             c   == UpdateContinuousBackups(enabled, out)
         IN  IF out = "ok" THEN [calls |-> <<c>>, result |-> Ret(None)]
             ELSE IF out = "ClientError"
             THEN LET r == pitr_loop_swallow(i + 1, n, enabled, outs)
                  IN  [calls |-> <<c>> \o r.calls, result |-> r.result]
             ELSE [calls |-> <<c>>, result |-> Raise(out)]

RECURSIVE pitr_loop(_, _, _, _)
\* for i in range(0, n + 1): from index i on
pitr_loop(i, n, enabled, outs) ==
    IF i > n THEN [calls |-> <<>>, result |-> Ret(None)]
    ELSE LET out == Outcome(outs, i + 1)
             c   == UpdateContinuousBackups(enabled, out)
         IN  IF out = "ok" THEN [calls |-> <<c>>, result |-> Ret(None)]       \* break
             ELSE IF out = "ClientError"
             THEN IF i = n
                  THEN [calls |-> <<c>>, result |-> Raise(out)]               \* raise
                  ELSE LET r == pitr_loop(i + 1, n, enabled, outs)            \* sleep, next i
                       IN  [calls |-> <<c>> \o r.calls, result |-> r.result]
             ELSE [calls |-> <<c>>, result |-> Raise(out)]                    \* not caught

set_point_in_time_recovery(enabled, outs) == pitr_loop(0, max_retry, enabled, outs)

SetPointInTimeRecovery ==
    \E enabled \in {"True", "False"}, outs \in PitrScripts(max_retry) :
        LET r == set_point_in_time_recovery(enabled, outs)
        IN  /\ last' = Op("set_point_in_time_recovery", [enabled |-> enabled],
                          r.calls, r.result, FALSE)
            /\ UNCHANGED <<settings, max_retry, table_name, testVars, lockVars, workerVars>>

(***************************************************************************)
(* TableConnection.create_table                           connection.py:64 *)
(***************************************************************************)
NoTags == [none |-> TRUE, val |-> <<>>]
Tags(v) == [none |-> FALSE, val |-> v]

\* the arguments tried: the configuration ones, and the ones that steer the steps
CreateArgs ==
    [ billing_mode : Given("billing_mode"),
      stream_specification : {None, "{}", "arg:stream_specification"},
      tags : {NoTags, Tags(<<"arg:tags">>)},
      wait : {FALSE}, set_point_in_time_recovery : {None} ]
    \cup
    [ billing_mode : {None}, stream_specification : {None}, tags : {NoTags},
      wait : BOOLEAN, set_point_in_time_recovery : {None, "True", "False"} ]

\* What the SDK does in one create_table: the create call, the waiter, the backups calls.
CreateScripts ==
    { [create |-> e, wait |-> "ok", pitr |-> <<>>] : e \in SdkErrors }
    \cup { [create |-> "ok", wait |-> e, pitr |-> <<>>] : e \in SdkErrors }
    \cup { [create |-> "ok", wait |-> "ok", pitr |-> p] : p \in PitrScripts(max_retry) }

\* lines 78-81
EffectivePitr(arg) ==
    IF arg = None
    THEN (IF settings.POINT_IN_TIME_RECOVERY = None THEN "False"
          ELSE settings.POINT_IN_TIME_RECOVERY)
    ELSE arg

\* lines 82-83
EffectiveStream(arg) ==
    IF ~Truthy(arg) THEN settings.STREAM_SPECIFICATION ELSE arg

\* lines 85-88
EffectiveTags(arg) ==
    IF arg.none /\ settings.TAGS.present
    THEN Tags(FormatTag(settings.TAGS.tmpl, table_name))
    ELSE arg

Waiter(name, out) ==
    SdkCall(name, [TableName |-> table_name, Delay |-> 10, MaxAttempts |-> max_retry], out)

\* the waiter only when point-in-time recovery is asked for: wait is ignored
NeedsWaitPitrOnly(wait, pitr) == Truthy(pitr)
\* line 102
NeedsWait(wait, pitr) == wait \/ Truthy(pitr)

create_table(a, s) ==
    LET billing == OrSetting(a.billing_mode, "BILLING_MODE")
        pitr    == EffectivePitr(a.set_point_in_time_recovery)
        stream  == EffectiveStream(a.stream_specification)
        tags    == EffectiveTags(a.tags)
        c1 == SdkCall("create_table",
                      [table_name |-> table_name, stream_specification |-> stream,
                       billing_mode |-> billing, tags |-> tags], s.create)
        c2 == Waiter("wait:table_exists", s.wait)
        r3 == set_point_in_time_recovery("True", s.pitr)
    IN  IF s.create # "ok" THEN [calls |-> <<c1>>, result |-> Raise(s.create)]
        ELSE IF NeedsWait(a.wait, pitr) /\ s.wait # "ok"
        THEN [calls |-> <<c1, c2>>, result |-> Raise(s.wait)]
        ELSE LET waited == IF NeedsWait(a.wait, pitr) THEN <<c1, c2>> ELSE <<c1>>
             IN  IF Truthy(pitr)
                 THEN [calls |-> waited \o r3.calls,
                       result |-> IF r3.result.kind = "raise" THEN r3.result
                                  ELSE Ret("create_table:response")]
                 ELSE [calls |-> waited, result |-> Ret("create_table:response")]

CreateTable ==
    \E a \in CreateArgs, s \in CreateScripts :
        LET r == create_table(a, s)
        IN  /\ last' = Op("create_table", a, r.calls, r.result, FALSE)
            /\ UNCHANGED <<settings, max_retry, table_name, testVars, lockVars, workerVars>>

(***************************************************************************)
(* TableConnection.delete_table                          connection.py:116 *)
(***************************************************************************)
delete_table(wait, s) ==
    LET c1 == SdkCall("delete_table", [table_name |-> table_name], s.delete)
        c2 == Waiter("wait:table_not_exists", s.wait)
    IN  IF s.delete # "ok" THEN [calls |-> <<c1>>, result |-> Raise(s.delete)]
        ELSE IF wait
        THEN (IF s.wait # "ok" THEN [calls |-> <<c1, c2>>, result |-> Raise(s.wait)]
              ELSE [calls |-> <<c1, c2>>, result |-> Ret("delete_table:response")])
        ELSE [calls |-> <<c1>>, result |-> Ret("delete_table:response")]

DeleteTable ==
    \E wait \in BOOLEAN, d \in SdkOutcomes, w \in SdkOutcomes :
        LET r == delete_table(wait, [delete |-> d, wait |-> w])
        IN  /\ last' = Op("delete_table", [wait |-> wait], r.calls, r.result, FALSE)
            /\ UNCHANGED <<settings, max_retry, table_name, testVars, lockVars, workerVars>>

(***************************************************************************)
(* TableConnection.exists_table                          connection.py:131 *)
(***************************************************************************)
\* "except Exception": every error becomes False
exists_table_catch_all(out) ==
    LET c == SdkCall("describe_table", [table_name |-> table_name], out)
    IN  IF out = "ok" THEN [calls |-> <<c>>, result |-> Ret("True")]
        ELSE [calls |-> <<c>>, result |-> Ret("False")]

exists_table(out) ==
    LET c == SdkCall("describe_table", [table_name |-> table_name], out)
    IN  IF out = "ok" THEN [calls |-> <<c>>, result |-> Ret("True")]
        ELSE IF out = "TableDoesNotExist" THEN [calls |-> <<c>>, result |-> Ret("False")]
        ELSE [calls |-> <<c>>, result |-> Raise(out)]

ExistsTable ==
    \E out \in SdkOutcomes :
        LET r == exists_table(out)
        IN  /\ last' = Op("exists_table", [none |-> None], r.calls, r.result, FALSE)
            /\ UNCHANGED <<settings, max_retry, table_name, testVars, lockVars, workerVars>>

(***************************************************************************)
(* TableConnection.batch_write_item                      connection.py:143 *)
(***************************************************************************)
Keys == 1..MaxItems

\* a list argument: omitted (None) or a list of item keys
Omitted  == [none |-> TRUE, keys |-> {}]
List(ks) == [none |-> FALSE, keys |-> ks]

\* the lists tried: omitted, or a list of one item
SmallLists == {Omitted} \cup { List({k}) : k \in Keys }

\* What super().batch_write_item returns: nothing, or a response without or with
\* the ConsumedCapacity key.
Responses == {None, "response", "response+ConsumedCapacity"}
HasConsumedCapacity(data) == data = "response+ConsumedCapacity"

\* DynamoDB reports the consumed capacity only when it is asked to
ResponsesTo(return_consumed_capacity) ==
    IF Truthy(return_consumed_capacity) THEN Responses
    ELSE Responses \ {"response+ConsumedCapacity"}

\* line 141, the first component: the table's RETURN_CONSUMED_CAPACITY
get_logging_settings == settings.RETURN_CONSUMED_CAPACITY

\* line 153
ForwardedCapacity(arg) == PyOr(get_logging_settings, arg)

\* out: an SDK error, or one of Responses
batch_write_item(put_items, delete_items, rcc, out) ==
    LET kw == [put_items |-> put_items, delete_items |-> delete_items,
               return_consumed_capacity |-> ForwardedCapacity(rcc)]
        c  == IF out \in SdkErrors THEN SdkCall("batch_write_item", kw, out)
              ELSE SdkReturn("batch_write_item", kw, out)
    IN  IF out \in SdkErrors
        THEN [calls |-> <<c>>, result |-> Raise(out), logged |-> FALSE]
        ELSE IF Truthy(out) /\ HasConsumedCapacity(out)
        THEN (IF put_items.none
              \* "for item in put_items" over None
              THEN [calls |-> <<c>>, result |-> Raise("TypeError"), logged |-> FALSE]
              ELSE [calls |-> <<c>>, result |-> Ret(out), logged |-> TRUE])
        ELSE [calls |-> <<c>>, result |-> Ret(out), logged |-> FALSE]

BatchArgs ==
    [ put_items : SmallLists, delete_items : SmallLists,
      return_consumed_capacity : {None, "INDEXES"} ]

BatchWriteItem ==
    \E a \in BatchArgs :
    \E out \in SdkErrors \cup ResponsesTo(ForwardedCapacity(a.return_consumed_capacity)) :
        LET r == batch_write_item(a.put_items, a.delete_items,
                                  a.return_consumed_capacity, out)
        IN  /\ last' = Op("batch_write_item", a, r.calls, r.result, r.logged)
            /\ UNCHANGED <<settings, max_retry, table_name, testVars, lockVars, workerVars>>

(***************************************************************************)
(* TestTableConnection                                   connection.py:184 *)
(***************************************************************************)
\* a prefix argument: None, a str (its characters) or an int
PNone   == [kind |-> "none", s |-> <<>>, n |-> 0]
PStr(s) == [kind |-> "str", s |-> s, n |-> 0]
PInt(n) == [kind |-> "int", s |-> <<>>, n |-> n]

Prefixes == {PNone, PStr(<<>>), PStr(<<"1">>), PStr(<<"2">>), PInt(0), PInt(1)}

\* the prefixes the test runner constructs with: None, str(i + 1), _worker_id
ConstructPrefixes == {PNone, PStr(<<"1">>), PInt(1)}

Digits == <<"0", "1", "2", "3", "4", "5", "6", "7", "8", "9">>

RECURSIVE Str(_)
\* str(n) of an int n >= 0: its decimal digits
Str(n) == IF n < 10 THEN <<Digits[n + 1]>> ELSE Str(n \div 10) \o <<Digits[(n % 10) + 1]>>

\* what '{}'.format(p) writes
FormatValue(p) ==
    IF p.kind = "str" THEN p.s ELSE IF p.kind = "int" THEN Str(p.n) ELSE <<"None">>

\* bool(p)
TruthyPrefix(p) == (p.kind = "str" /\ p.s # <<>>) \/ (p.kind = "int" /\ p.n # 0)

\* the prefix put before the connection's current name: prefixes pile up
set_table_name_on_current(prefix, orig, current) ==
    IF TruthyPrefix(prefix)
    THEN <<"test_">> \o FormatValue(prefix) \o <<"_">> \o current
    ELSE <<"test_">> \o current
\* lines 207-211; orig is self._wrapped_table_name, current is the wrapped
\* connection's table_name when the method is entered
set_table_name(prefix, orig, current) ==
    IF TruthyPrefix(prefix)
    THEN <<"test_">> \o FormatValue(prefix) \o <<"_">> \o orig
    ELSE <<"test_">> \o orig

SetTableName ==
    \E prefix \in Prefixes :
        /\ table_name' = set_table_name(prefix, wrapped_table_name, table_name)
        /\ last_prefix' = prefix
        /\ last' = Op("set_table_name", [prefix |-> prefix], <<>>, Ret(None), FALSE)
        /\ UNCHANGED <<settings, max_retry, wrapped_table_name, is_test_clean_required,
                       items, written, lockVars, workerVars>>

\* lines 214, 218, 222
MarkWrite == TRUE

\* update_item and put_item: the flag, then the wrapped connection's call
ItemWrite(op) ==
    \E k \in Keys, out \in SdkOutcomes :
        /\ is_test_clean_required' = MarkWrite
        /\ written' = TRUE
        /\ items' = IF out = "ok" THEN items \cup {k} ELSE items
        /\ last' = Op(op, [key |-> k],
                      << SdkCall(op, [table_name |-> table_name, key |-> k], out) >>,
                      IF out = "ok" THEN Ret(op \o ":response") ELSE Raise(out), FALSE)
        /\ UNCHANGED <<settings, max_retry, table_name, wrapped_table_name, last_prefix,
                       lockVars, workerVars>>

UpdateItem == ItemWrite("update_item")

PutItem == ItemWrite("put_item")

\* the table after the SDK ran a batch
AfterBatch(put_items, delete_items) == (items \cup put_items.keys) \ delete_items.keys

TestBatchWriteItem ==
    \E a \in BatchArgs :
    \E out \in SdkErrors \cup ResponsesTo(ForwardedCapacity(a.return_consumed_capacity)) :
        LET r == batch_write_item(a.put_items, a.delete_items,
                                  a.return_consumed_capacity, out)
        IN  /\ is_test_clean_required' = MarkWrite
            /\ written' = TRUE
            /\ items' = IF out \in SdkErrors THEN items
                        ELSE AfterBatch(a.put_items, a.delete_items)
            /\ last' = Op("batch_write_item", a, r.calls, r.result, r.logged)
            /\ UNCHANGED <<settings, max_retry, table_name, wrapped_table_name,
                           last_prefix, lockVars, workerVars>>

\* What the SDK does in one post_test_clean: the scan, then the batch of deletes.
CleanScripts ==
    { [scan |-> e, batch |-> None] : e \in SdkErrors }
    \cup { [scan |-> "ok", batch |-> b] :
             b \in SdkErrors \cup ResponsesTo(ForwardedCapacity(None)) }

\* line 230 left out: the flag is what the clean's own batch deletes made it
FlagAfterCleanLeftOut(required, after_batch) == after_batch
\* line 230
FlagAfterClean(required, after_batch) == FALSE

\* lines 225-230.  The deletes of the batch go out, when the scan found items, as one
\* batch_write_item(put_items=None, delete_items=...) of this TestTableConnection.
post_test_clean(s) ==
    LET scan == SdkCall("scan", [table_name |-> table_name], s.scan)
        b    == batch_write_item(Omitted, List(items), None, s.batch)
        done(flag) == FlagAfterClean(is_test_clean_required, flag)
    IN  IF ~is_test_clean_required
        THEN [calls |-> <<>>, result |-> Ret(None), flag |-> done(is_test_clean_required),
              items |-> items]
        ELSE IF s.scan # "ok"
        THEN [calls |-> <<scan>>, result |-> Raise(s.scan),
              flag |-> is_test_clean_required, items |-> items]
        ELSE IF items = {}
        THEN [calls |-> <<scan>>, result |-> Ret(None),
              flag |-> done(is_test_clean_required), items |-> items]
        ELSE IF b.result.kind = "raise"
        THEN [calls |-> <<scan>> \o b.calls, result |-> b.result, flag |-> MarkWrite,
              items |-> IF s.batch \in SdkErrors THEN items ELSE {}]
        ELSE [calls |-> <<scan>> \o b.calls, result |-> Ret(None), flag |-> done(MarkWrite),
              items |-> {}]

PostTestClean ==
    \E s \in CleanScripts :
        LET r == post_test_clean(s)
        IN  /\ is_test_clean_required' = r.flag
            /\ items' = r.items
            /\ written' = IF r.result.kind = "return" THEN FALSE ELSE written
            /\ last' = Op("post_test_clean",
                          [required |-> is_test_clean_required, written |-> written,
                           items |-> items],
                          r.calls, r.result, FALSE)
            /\ UNCHANGED <<settings, max_retry, table_name, wrapped_table_name,
                           last_prefix, lockVars, workerVars>>

(***************************************************************************)
(* connection_lock and the patched http_session.send     connection.py:15, *)
(* 196-205.  The lock is made when the module is imported: forked workers  *)
(* inherit the parent's lock object, spawned workers import the module     *)
(* again and make their own (test_runner.py:63 reads the start method).    *)
(***************************************************************************)
Procs == 1..NumProcs
Locks == 0..NumProcs

\* the RLock object that connection_lock names in process p
LockOf(p) == IF start_method = "fork" THEN 0 ELSE p

\* the "with connection_lock" left out: the send never waits
CanAcquireAlways(p) == TRUE
\* a plain Lock: its owner blocks on it too
CanAcquirePlainLock(p) == lock_owner[LockOf(p)] = 0
\* multiprocessing.RLock: free, or owned by the caller
CanAcquire(p) == lock_owner[LockOf(p)] \in {0, p}

\* _patch_connection on an http session that is patched already: one more
\* patched_method wraps the send
PatchConnection(p) ==
    /\ send_pc[p] = "idle"
    /\ patch_depth[p] < MaxPatch
    /\ patch_depth' = [patch_depth EXCEPT ![p] = @ + 1]
    /\ UNCHANGED <<start_method, lock_owner, lock_count, send_pc, send_level, send_result,
                   connVars, testVars, workerVars>>

\* botocore calls http_session.send: the outermost patched_method is entered
CallSend(p) ==
    /\ send_pc[p] = "idle"
    /\ send_pc' = [send_pc EXCEPT ![p] = "enter"]
    /\ send_result' = [send_result EXCEPT ![p] = "pending"]
    /\ UNCHANGED <<start_method, lock_owner, lock_count, patch_depth, send_level,
                   connVars, testVars, workerVars>>

\* "with connection_lock:" of the next patched_method; the innermost one then
\* calls the original send
AcquireLock(p) ==
    /\ send_pc[p] = "enter"
    /\ CanAcquire(p)
    /\ lock_owner' = [lock_owner EXCEPT ![LockOf(p)] = p]
    /\ lock_count' = [lock_count EXCEPT ![LockOf(p)] = @ + 1]
    /\ send_level' = [send_level EXCEPT ![p] = @ + 1]
    /\ send_pc' = [send_pc EXCEPT ![p] =
                     IF send_level[p] + 1 = patch_depth[p] THEN "original" ELSE "enter"]
    /\ UNCHANGED <<start_method, patch_depth, send_result, connVars, testVars, workerVars>>

\* original_method(*args, **kwargs) returns
OriginalSendReturns(p) ==
    /\ send_pc[p] = "original"
    /\ send_pc' = [send_pc EXCEPT ![p] = "exit"]
    /\ send_result' = [send_result EXCEPT ![p] = "returned"]
    /\ UNCHANGED <<start_method, lock_owner, lock_count, patch_depth, send_level,
                   connVars, testVars, workerVars>>

\* original_method(*args, **kwargs) raises
OriginalSendRaises(p) ==
    /\ send_pc[p] = "original"
    /\ send_pc' = [send_pc EXCEPT ![p] = "exit"]
    /\ send_result' = [send_result EXCEPT ![p] = "raised"]
    /\ UNCHANGED <<start_method, lock_owner, lock_count, patch_depth, send_level,
                   connVars, testVars, workerVars>>

\* the end of a "with connection_lock:" block, left by return or by exception
ReleaseLock(p) ==
    /\ send_pc[p] = "exit"
    /\ lock_count' = [lock_count EXCEPT ![LockOf(p)] = @ - 1]
    /\ lock_owner' = [lock_owner EXCEPT ![LockOf(p)] =
                        IF lock_count[LockOf(p)] = 1 THEN 0 ELSE p]
    /\ send_level' = [send_level EXCEPT ![p] = @ - 1]
    /\ send_pc' = [send_pc EXCEPT ![p] = IF send_level[p] = 1 THEN "idle" ELSE "exit"]
    /\ UNCHANGED <<start_method, patch_depth, send_result, connVars, testVars, workerVars>>

(***************************************************************************)
(* The parallel test runner                                 test_runner.py *)
(***************************************************************************)
\* dynamodb_model_classes: the table name of each registered model's connection
ModelTableNames == { FormatTableName(TABLE_PREFIX, m) : m \in {"users", "orders"} }

\* init_pynamodb_test_prefix(prefix): a new TestTableConnection per model, lines 23-26
init_pynamodb_test_prefix(prefix) ==
    { set_table_name(prefix, orig, orig) : orig \in ModelTableNames }

\* the prefixes of setup_databases and teardown_databases, lines 114-118 and 134-138
RunnerPrefixes ==
    IF parallel > 1 THEN { PStr(Str(i + 1)) : i \in 0..(parallel - 1) } ELSE {PNone}

RunnerTables ==
    UNION { init_pynamodb_test_prefix(prefix) : prefix \in RunnerPrefixes }

Workers == IF parallel > 1 THEN 1..parallel ELSE {}

SetupDatabases ==
    /\ phase = "start"
    /\ created_tables' = RunnerTables
    /\ phase' = "workers"
    /\ UNCHANGED <<parallel, counter, counter_lock, worker_pc, worker_tmp, worker_id,
                   worker_tables, removed_tables, connVars, testVars, lockVars>>

\* the counter is read and written without its lock
CounterLockFreeAlways(w) == TRUE
\* with counter.get_lock(), line 59
CounterLockFree(w) == counter_lock = 0

LockCounter(w) ==
    /\ phase = "workers" /\ worker_pc[w] = "start"
    /\ CounterLockFree(w)
    /\ counter_lock' = w
    /\ worker_pc' = [worker_pc EXCEPT ![w] = "read"]
    /\ UNCHANGED <<parallel, phase, counter, worker_tmp, worker_id, worker_tables,
                   created_tables, removed_tables, connVars, testVars, lockVars>>

\* counter.value += 1, line 60: the read
ReadCounter(w) ==
    /\ worker_pc[w] = "read"
    /\ worker_tmp' = [worker_tmp EXCEPT ![w] = counter]
    /\ worker_pc' = [worker_pc EXCEPT ![w] = "write"]
    /\ UNCHANGED <<parallel, phase, counter, counter_lock, worker_id, worker_tables,
                   created_tables, removed_tables, connVars, testVars, lockVars>>

\* counter.value += 1, line 60: the write
WriteCounter(w) ==
    /\ worker_pc[w] = "write"
    /\ counter' = worker_tmp[w] + 1
    /\ worker_pc' = [worker_pc EXCEPT ![w] = "assign"]
    /\ UNCHANGED <<parallel, phase, counter_lock, worker_tmp, worker_id, worker_tables,
                   created_tables, removed_tables, connVars, testVars, lockVars>>

\* _worker_id = counter.value, line 61, and the end of the with block
SetWorkerId(w) ==
    /\ worker_pc[w] = "assign"
    /\ worker_id' = [worker_id EXCEPT ![w] = counter]
    /\ counter_lock' = IF counter_lock = w THEN 0 ELSE counter_lock
    /\ worker_pc' = [worker_pc EXCEPT ![w] = "prefix"]
    /\ UNCHANGED <<parallel, phase, counter, worker_tmp, worker_tables,
                   created_tables, removed_tables, connVars, testVars, lockVars>>

\* init_pynamodb_test_prefix(_worker_id), line 82
InitWorkerPrefix(w) ==
    /\ worker_pc[w] = "prefix"
    /\ worker_tables' = [worker_tables EXCEPT
                           ![w] = init_pynamodb_test_prefix(PInt(worker_id[w]))]
    /\ worker_pc' = [worker_pc EXCEPT ![w] = "done"]
    /\ UNCHANGED <<parallel, phase, counter, counter_lock, worker_tmp, worker_id,
                   created_tables, removed_tables, connVars, testVars, lockVars>>

TeardownDatabases ==
    /\ phase = "workers"
    /\ \A w \in Workers : worker_pc[w] = "done"
    /\ removed_tables' = RunnerTables
    /\ phase' = "done"
    /\ UNCHANGED <<parallel, counter, counter_lock, worker_pc, worker_tmp, worker_id,
                   worker_tables, created_tables, connVars, testVars, lockVars>>

(***************************************************************************)
(* Initial states and specifications.                                      *)
(***************************************************************************)
NoOp == Op("none", [none |-> None], <<>>, Ret(None), FALSE)

ConnInit(choices, retries) ==
    /\ settings \in choices
    /\ max_retry \in retries
    /\ table_name = FormatTableName(TABLE_PREFIX, "users")
    /\ last = NoOp

\* TestTableConnection(wrapped_connection, prefix), lines 186-191
TestInit(prefixes) ==
    /\ wrapped_table_name = FormatTableName(TABLE_PREFIX, "users")
    /\ \E prefix \in prefixes :
          /\ table_name = set_table_name(prefix, wrapped_table_name, wrapped_table_name)
          /\ last_prefix = prefix
    /\ is_test_clean_required = FALSE
    /\ items = {}
    /\ written = FALSE

LockInit(methods) ==
    /\ start_method \in methods
    /\ lock_owner = [l \in Locks |-> 0]
    /\ lock_count = [l \in Locks |-> 0]
    /\ patch_depth = [p \in Procs |-> 1]
    /\ send_pc = [p \in Procs |-> "idle"]
    /\ send_level = [p \in Procs |-> 0]
    /\ send_result = [p \in Procs |-> "none"]

WorkerInit(parallels) ==
    /\ parallel \in parallels
    /\ phase = "start"
    /\ counter = 0
    /\ counter_lock = 0
    /\ worker_pc = [w \in 1..MaxParallel |-> "start"]
    /\ worker_tmp = [w \in 1..MaxParallel |-> 0]
    /\ worker_id = [w \in 1..MaxParallel |-> 0]
    /\ worker_tables = [w \in 1..MaxParallel |-> {}]
    /\ created_tables = {}
    /\ removed_tables = {}

\* ---- TableConnection's operations, for each retry count
ConnSpecInit ==
    /\ ConnInit(LoggingSettings \cup PitrSettings, 0..MaxRetry)
    /\ wrapped_table_name = table_name /\ last_prefix = PNone
    /\ is_test_clean_required = FALSE /\ items = {} /\ written = FALSE
    /\ LockInit({"fork"})
    /\ WorkerInit({1})

ConnNext ==
    \/ CreateTable
    \/ DeleteTable
    \/ ExistsTable
    \/ BatchWriteItem
    \/ SetPointInTimeRecovery

ConnSpec == ConnSpecInit /\ [][ConnNext]_vars

\* ---- the operations of a TestTableConnection and of the connection it wraps
\* (those it does not define reach the wrapped connection through __getattr__)
ErrorSpecInit ==
    /\ ConnInit(PitrSettings, {MaxRetry})
    /\ wrapped_table_name = table_name /\ last_prefix = PNone
    /\ is_test_clean_required = FALSE /\ items = {} /\ written = FALSE
    /\ LockInit({"fork"})
    /\ WorkerInit({1})

ErrorNext ==
    \/ CreateTable
    \/ DeleteTable
    \/ ExistsTable
    \/ SetPointInTimeRecovery
    \/ TestBatchWriteItem
    \/ PutItem
    \/ UpdateItem

ErrorSpec == ErrorSpecInit /\ [][ErrorNext]_vars

\* ---- the configuration defaults, for each choice of settings
ConfigSpecInit ==
    /\ ConnInit(CtorSettings \cup CreateSettings, {0})
    /\ wrapped_table_name = table_name /\ last_prefix = PNone
    /\ is_test_clean_required = FALSE /\ items = {} /\ written = FALSE
    /\ LockInit({"fork"})
    /\ WorkerInit({1})

ConfigNext ==
    \/ Construct
    \/ CreateTable

ConfigSpec == ConfigSpecInit /\ [][ConfigNext]_vars

\* ---- one TestTableConnection
TestSpecInit ==
    /\ settings \in LoggingSettings
    /\ max_retry = MaxRetry
    /\ last = NoOp
    /\ TestInit(ConstructPrefixes)
    /\ LockInit({"fork"})
    /\ WorkerInit({1})

TestNext ==
    \/ SetTableName
    \/ UpdateItem
    \/ PutItem
    \/ TestBatchWriteItem
    \/ PostTestClean

TestSpec == TestSpecInit /\ [][TestNext]_vars

\* ---- processes sending through the patched session
LockSpecInit ==
    /\ ConnInit({DefaultSettings}, {MaxRetry})
    /\ wrapped_table_name = table_name /\ last_prefix = PNone
    /\ is_test_clean_required = FALSE /\ items = {} /\ written = FALSE
    /\ LockInit({"fork", "spawn"})
    /\ WorkerInit({1})

LockNext ==
    \E p \in Procs :
        \/ PatchConnection(p)
        \/ CallSend(p)
        \/ AcquireLock(p)
        \/ OriginalSendReturns(p)
        \/ OriginalSendRaises(p)
        \/ ReleaseLock(p)

LockSpec == LockSpecInit /\ [][LockNext]_vars

\* Every original send ends, every with block is left, and a process that waits for
\* a lock that is free again and again gets it.
LockFairness ==
    \A p \in Procs :
        /\ SF_vars(AcquireLock(p))
        /\ WF_vars(OriginalSendReturns(p) \/ OriginalSendRaises(p))
        /\ WF_vars(ReleaseLock(p))

LockLiveSpec == LockSpec /\ LockFairness

\* ---- the workers of a parallel run
WorkerSpecInit ==
    /\ ConnInit({DefaultSettings}, {MaxRetry})
    /\ wrapped_table_name = table_name /\ last_prefix = PNone
    /\ is_test_clean_required = FALSE /\ items = {} /\ written = FALSE
    /\ LockInit({"fork"})
    /\ WorkerInit(1..MaxParallel)

WorkerNext ==
    \/ SetupDatabases
    \/ TeardownDatabases
    \/ \E w \in Workers :
          \/ LockCounter(w)
          \/ ReadCounter(w)
          \/ WriteCounter(w)
          \/ SetWorkerId(w)
          \/ InitWorkerPrefix(w)

WorkerSpec == WorkerSpecInit /\ [][WorkerNext]_vars

(***************************************************************************)
(* The claims.                                                             *)
(***************************************************************************)
CallNames(op) == { op.calls[i].name : i \in 1..Len(op.calls) }

CallsNamed(op, name) == { i \in 1..Len(op.calls) : op.calls[i].name = name }

\* C1 (as claimed): at most one process is inside the original http_session.send at
\* any time, and a process inside it holds connection_lock.
C1_OneProcessInOriginalSend ==
    /\ \A p \in Procs : send_pc[p] = "original" => lock_owner[LockOf(p)] = p
    /\ \A p, q \in Procs :
          (p # q /\ send_pc[p] = "original") => send_pc[q] # "original"

\* C1 (amended): a process inside the original send holds its connection_lock for the
\* whole of it; forked workers share one lock, so at most one of them is inside the
\* original send at any time.
C1_OneForkedProcessInOriginalSend ==
    /\ \A p \in Procs :
          send_pc[p] = "original" =>
              \E l \in Locks : lock_owner[l] = p /\ lock_count[l] = patch_depth[p]
    /\ start_method = "fork" =>
          /\ Cardinality({ p \in Procs : send_pc[p] = "original" }) <= 1
          /\ \A l \in Locks \ {0} : lock_owner[l] = 0

C1_Witness ==
    \E p, q \in Procs :
        /\ p # q
        /\ start_method = "fork"
        /\ send_pc[p] = "original" /\ send_level[p] = 1
        /\ send_pc[q] = "enter" /\ send_level[q] = 0

\* C2: set_point_in_time_recovery calls update_continuous_backups at most N + 1 times;
\* it returns right after the first successful call; a further call follows only a
\* ClientError; a ClientError on attempt N + 1, and no earlier one, is re-raised.
C2_RetryCountRespected ==
    last.op = "set_point_in_time_recovery" =>
        LET n == Len(last.calls)
        IN  /\ n >= 1 /\ n <= max_retry + 1
            /\ \A i \in 1..n : last.calls[i].name = "update_continuous_backups"
            /\ \A i \in 1..(n - 1) : last.calls[i].out = "ClientError"
            /\ last.calls[n].out = "ok" => last.result = Ret(None)
            /\ last.calls[n].out = "ClientError" =>
                  (n = max_retry + 1 /\ last.result = Raise("ClientError"))
            /\ last.result.kind = "raise" => last.result.val = last.calls[n].out

C2_Witness ==
    /\ last.op = "set_point_in_time_recovery"
    /\ max_retry >= 1
    /\ Len(last.calls) = max_retry + 1
    /\ last.result = Raise("ClientError")

\* an SDK error that is not a ClientError of update_continuous_backups
IsPlainError(c) ==
    c.out # "ok" /\ ~(c.name = "update_continuous_backups" /\ c.out = "ClientError")

ErrorOps == {"create_table", "delete_table", "exists_table", "batch_write_item",
             "put_item", "update_item", "set_point_in_time_recovery"}

\* C3 (as claimed): every SDK error, but a ClientError of update_continuous_backups,
\* ends the operation and reaches the caller as that same error.
C3_ErrorsPropagateUnchanged ==
    last.op \in ErrorOps =>
        \A i \in 1..Len(last.calls) :
            IsPlainError(last.calls[i]) =>
                (i = Len(last.calls) /\ last.result = Raise(last.calls[i].out))

\* C3 (amended): as claimed, but for exists_table, where TableDoesNotExist makes the
\* operation return False; every other error of exists_table is raised unchanged.
C3_ErrorsPropagateButTableDoesNotExist ==
    last.op \in ErrorOps =>
        \A i \in 1..Len(last.calls) :
            IsPlainError(last.calls[i]) =>
                /\ i = Len(last.calls)
                /\ IF last.op = "exists_table" /\ last.calls[i].out = "TableDoesNotExist"
                   THEN last.result = Ret("False")
                   ELSE last.result = Raise(last.calls[i].out)

C3_Witness ==
    /\ last.op = "exists_table"
    /\ last.calls[1].out = "ClientError"
    /\ last.result = Raise("ClientError")

\* the settings' TAGS as they stand, None when the key is missing
SettingsTags == IF settings.TAGS.present THEN Tags(settings.TAGS.tmpl) ELSE NoTags

CtorParams ==
    { <<"region", "AWS_REGION">>, <<"host", "HOST">>,
      <<"aws_access_key_id", "AWS_ACCESS_KEY_ID">>,
      <<"aws_secret_access_key", "AWS_SECRET_ACCESS_KEY">>,
      <<"aws_session_token", "AWS_SESSION_TOKEN">> }

\* what is forwarded under "the caller's value when one was passed, else the setting"
CallerFirst(arg, setting) == IF arg # None THEN arg ELSE setting

\* the constructor's five parameters and create_table's billing_mode and
\* set_point_in_time_recovery: the caller's value, else the setting
DefaultsOfPlainParams ==
    /\ last.op = "__init__" =>
          \A pk \in CtorParams :
              last.calls[1].kw[pk[1]] = CallerFirst(last.args[pk[1]], settings[pk[2]])
    /\ last.op = "create_table" =>
          /\ last.calls[1].kw.billing_mode =
                CallerFirst(last.args.billing_mode, settings.BILLING_MODE)
          /\ (\A i \in 1..Len(last.calls) : last.calls[i].out = "ok") =>
                ( "update_continuous_backups" \in CallNames(last)
                  <=> Truthy(CallerFirst(last.args.set_point_in_time_recovery,
                                         settings.POINT_IN_TIME_RECOVERY)) )

\* C4 (as claimed): for every parameter the value forwarded is the caller's value when
\* the caller passed one, and the value of the settings key only when it was omitted.
C4_DefaultsExactlyWhenOmitted ==
    /\ DefaultsOfPlainParams
    /\ last.op = "create_table" =>
          /\ last.calls[1].kw.stream_specification =
                CallerFirst(last.args.stream_specification, settings.STREAM_SPECIFICATION)
          /\ last.calls[1].kw.tags =
                (IF ~last.args.tags.none THEN last.args.tags ELSE SettingsTags)

\* C4 (amended): as claimed, but stream_specification takes the setting whenever the
\* caller's value is falsy (omitted or empty), and the tags taken from the settings
\* have {table_name} replaced by the connection's table name.
C4_DefaultsWhenOmittedOrFalsy ==
    /\ DefaultsOfPlainParams
    /\ last.op = "create_table" =>
          /\ last.calls[1].kw.stream_specification =
                (IF last.args.stream_specification \notin {None, "{}"}
                 THEN last.args.stream_specification
                 ELSE settings.STREAM_SPECIFICATION)
          /\ last.calls[1].kw.tags =
                (IF ~last.args.tags.none THEN last.args.tags
                 ELSE IF ~settings.TAGS.present THEN NoTags
                 ELSE IF settings.TAGS.tmpl = <<"table=", "{table_name}">>
                 THEN Tags(<<"table=">> \o table_name)
                 ELSE Tags(settings.TAGS.tmpl))

C4_Witness ==
    /\ last.op = "create_table"
    /\ last.args.stream_specification = "{}"
    /\ last.calls[1].kw.stream_specification = Configured("STREAM_SPECIFICATION")
    /\ last.args.billing_mode = "arg:billing_mode"
    /\ last.calls[1].kw.billing_mode = "arg:billing_mode"

\* point-in-time recovery as the claim reads it: the argument, or the setting when
\* the argument is None
PitrEffective(op) ==
    Truthy(IF op.args.set_point_in_time_recovery # None
           THEN op.args.set_point_in_time_recovery
           ELSE settings.POINT_IN_TIME_RECOVERY)

\* C5: create_table calls the SDK's create_table first; then, and only after it
\* succeeded, the table_exists waiter iff wait or point-in-time recovery is effective;
\* then, and only after the waiter succeeded, update_continuous_backups iff
\* point-in-time recovery is effective.  delete_table calls the SDK's delete_table
\* first and the table_not_exists waiter only after it succeeded, iff wait.
C5_StepsInOrder ==
    /\ last.op = "create_table" =>
          /\ last.calls[1].name = "create_table"
          /\ CallsNamed(last, "create_table") = {1}
          /\ CallsNamed(last, "wait:table_exists") \subseteq {2}
          /\ last.calls[1].out = "ok" =>
                ( CallsNamed(last, "wait:table_exists") = {2}
                  <=> (last.args.wait \/ PitrEffective(last)) )
          /\ last.calls[1].out # "ok" => Len(last.calls) = 1
          /\ CallsNamed(last, "update_continuous_backups") # {} =>
                /\ PitrEffective(last)
                /\ last.calls[1].out = "ok"
                /\ Len(last.calls) >= 3
                /\ last.calls[2].name = "wait:table_exists" /\ last.calls[2].out = "ok"
                /\ CallsNamed(last, "update_continuous_backups") = 3..Len(last.calls)
          /\ ( /\ PitrEffective(last)
               /\ Len(last.calls) >= 2
               /\ last.calls[1].out = "ok" /\ last.calls[2].out = "ok" ) =>
                ( Len(last.calls) >= 3 /\ last.calls[3].name = "update_continuous_backups" )
    /\ last.op = "delete_table" =>
          /\ last.calls[1].name = "delete_table"
          /\ Len(last.calls) <= 2
          /\ Len(last.calls) = 2 <=> (last.args.wait /\ last.calls[1].out = "ok")
          /\ Len(last.calls) = 2 => last.calls[2].name = "wait:table_not_exists"

C5_Witness ==
    /\ last.op = "create_table"
    /\ ~last.args.wait
    /\ last.args.set_point_in_time_recovery = None
    /\ settings.POINT_IN_TIME_RECOVERY = "True"
    /\ Len(last.calls) = 3
    /\ last.calls[3].name = "update_continuous_backups"
    /\ last.result = Ret("create_table:response")

\* C6 (as claimed): whatever put_items and delete_items are, when the SDK call
\* succeeds batch_write_item returns the SDK's response, logs exactly when the response
\* has ConsumedCapacity, and sends the LOGGING setting's return_consumed_capacity when
\* that is set and the caller's otherwise.
C6_BatchWriteReturnsResponse ==
    (last.op = "batch_write_item" /\ last.calls[1].out = "ok") =>
        /\ last.result = Ret(last.calls[1].ret)
        /\ last.logged <=> HasConsumedCapacity(last.calls[1].ret)
        /\ last.calls[1].kw.return_consumed_capacity =
              (IF settings.RETURN_CONSUMED_CAPACITY # None
               THEN settings.RETURN_CONSUMED_CAPACITY
               ELSE last.args.return_consumed_capacity)

\* the name the claim gives for a prefix that counts as given
PrefixedName(p) ==
    <<"test_">> \o (IF p.kind = "str" THEN p.s ELSE Str(p.n)) \o <<"_">>
        \o <<TABLE_PREFIX, "-", "users">>

PlainName == <<"test_", TABLE_PREFIX, "-", "users">>

\* C7 (as claimed): the wrapped connection's table_name is test_<prefix>_<original>
\* for the last prefix when one was given, test_<original> when none was.
C7_NameFromLastPrefix ==
    /\ wrapped_table_name = <<TABLE_PREFIX, "-", "users">>
    /\ table_name = IF last_prefix.kind # "none" THEN PrefixedName(last_prefix)
                    ELSE PlainName

\* C7 (amended): test_<prefix>_<original> when the last prefix is a non-empty string
\* or a non-zero number, test_<original> when it is None, empty or zero.
C7_NameFromLastTruthyPrefix ==
    /\ wrapped_table_name = <<TABLE_PREFIX, "-", "users">>
    /\ table_name =
          IF \/ (last_prefix.kind = "str" /\ Len(last_prefix.s) > 0)
             \/ (last_prefix.kind = "int" /\ last_prefix.n > 0)
          THEN PrefixedName(last_prefix)
          ELSE PlainName

C7_Witness ==
    /\ last.op = "set_table_name"
    /\ last_prefix = PStr(<<"2">>)
    /\ table_name = <<"test_", "2", "_", TABLE_PREFIX, "-", "users">>

\* C8: the flag is set exactly when a write was called since the last clean returned;
\* post_test_clean scans, and on success leaves the table empty, iff that is so, and
\* otherwise calls nothing and leaves the table alone; the flag is False after a clean
\* that returned and True after a clean that raised.
C8_CleanIffWritten ==
    /\ is_test_clean_required <=> written
    /\ last.op = "post_test_clean" =>
          /\ last.calls # <<>> <=> last.args.written
          /\ ~last.args.written =>
                (items = last.args.items /\ last.result = Ret(None))
          /\ last.args.written =>
                /\ last.calls[1].name = "scan"
                /\ last.result.kind = "return" => items = {}
          /\ last.result.kind = "return" => ~is_test_clean_required
          /\ last.result.kind = "raise" => is_test_clean_required

C8_Witness ==
    /\ last.op = "post_test_clean"
    /\ last.args.items # {}
    /\ Len(last.calls) = 2
    /\ last.calls[2].name = "batch_write_item"
    /\ last.result = Ret(None)
    /\ ~is_test_clean_required
    /\ items = {}

AllWorkersHaveIds == \A w \in Workers : worker_pc[w] \in {"prefix", "done"}

\* the table names of worker id n, as the claim writes them
WorkerTableNames(n) ==
    { <<"test_">> \o Str(n) \o <<"_", TABLE_PREFIX, "-", m>> : m \in {"users", "orders"} }

\* C9: the workers' ids are pairwise distinct and, once all have one, exactly 1..N; a
\* worker's tables are test_<id>_<original>, shared with no other worker, among the
\* tables setup_databases created and, after teardown_databases, among those removed.
C9_WorkersGetDistinctIds ==
    parallel > 1 =>
        /\ \A v, w \in Workers :
              (v # w /\ worker_pc[v] \in {"prefix", "done"}
                     /\ worker_pc[w] \in {"prefix", "done"}) => worker_id[v] # worker_id[w]
        /\ AllWorkersHaveIds => { worker_id[w] : w \in Workers } = 1..parallel
        /\ \A w \in Workers :
              worker_pc[w] = "done" =>
                  /\ worker_tables[w] = WorkerTableNames(worker_id[w])
                  /\ worker_tables[w] \subseteq created_tables
                  /\ phase = "done" => worker_tables[w] \subseteq removed_tables
                  /\ \A v \in Workers \ {w} : worker_tables[v] \cap worker_tables[w] = {}

C9_Witness ==
    /\ parallel > 2
    /\ phase = "done"
    /\ \A w \in Workers : worker_pc[w] = "done" /\ worker_tables[w] # {}

====
